---- MODULE Spec2Model ----
(***************************************************************************)
(* The invoice ledger of channeldb/invoices.go as a state machine.         *)
(*                                                                         *)
(* The state is the content of the bolt database under the "invoices"      *)
(* bucket: the invoice records keyed by invoice number, the payment-hash   *)
(* index with its numInvoicesKey counter, the add index and the settle     *)
(* index with their bucket sequences.  Every public method of DB is one    *)
(* action: it runs the body of its bolt transaction on a copy of the       *)
(* database and commits the copy exactly when the body returned nil.       *)
(*                                                                         *)
(* Byte strings (Memo, Receipt, PaymentRequest) are modelled by their      *)
(* length, 32-byte preimages and hashes by small naturals (0 is the        *)
(* all-zero value), and time.Time values by the instant they denote        *)
(* (compared as time.Time.Equal compares them), with one value standing    *)
(* for a time whose zone offset MarshalBinary refuses to encode.           *)
(***************************************************************************)
EXTENDS Integers, Sequences, FiniteSets, TLC

(***************************************************************************)
(* Bounds of the model.                                                    *)
(***************************************************************************)
\* Number of distinct non-zero preimages new invoices are made with.  The
\* preimages revealed later range over one more value.
NumPreimages == 1

\* Number of invoices with a record in the ledger the queries run against.
NumQueryInvoices == 2

\* The number of goroutines calling AddInvoice concurrently.
NumCallers == 2

(***************************************************************************)
(* Program constants.                                                      *)
(***************************************************************************)
MaxMemoSize == 1024
MaxReceiptSize == 1024
MaxPaymentRequestSize == 4096

zeroPreimage == 0
zeroHash == 0

invoiceBucket == "invoices"
invoiceIndexBucket == "paymenthashes"
addIndexBucket == "invoice-add-index"
settleIndexBucket == "invoice-settle-index"

\* The error values the methods return.  Nil is Go's nil error.
Nil == "nil"
ErrDuplicateInvoice == "ErrDuplicateInvoice"
ErrInvoiceNotFound == "ErrInvoiceNotFound"
ErrNoInvoicesCreated == "ErrNoInvoicesCreated"
ErrMemoSize == "max length a memo"
ErrReceiptSize == "max length a receipt"
ErrPaymentRequestSize == "max length of payment request"
ErrNoPaymentHash == "Invoices with ExternalPreimage must have a locally defined PaymentHash."
ErrNoPreimage == "Invoices must have a preimage or use ExternalPreimages"
ErrNotExternal == "Invoices without an ExternalPreimage flag cannot have their preimage modified."
ErrOverwritePreimage == "Attempted to overwrite preimage on ExternalPreimage invoice"
ErrMarshalBinary == "Time.MarshalBinary: unexpected zone offset"
ErrDecode == "decode error"

(***************************************************************************)
(* Value domains.                                                          *)
(***************************************************************************)
Preimages == 0..NumPreimages

\* The preimages passed to AddInvoicePreimage: the above, and one that is
\* the preimage of no hash in the ledger.
RevealPreimages == 0..(NumPreimages + 1)

\* crypto/sha256: injective on the modelled preimages and never all-zero.
SHA256(p) == p + 1

\* The all-zero hash and the hash of every preimage new invoices use.
Hashes == 0..(NumPreimages + 1)

\* The zero time.Time, and a time whose zone offset is minus one minute,
\* which Time.MarshalBinary rejects.
ZeroTime == "0001-01-01T00:00:00Z"
BadZoneTime == "2018-12-01T00:00:00-00:01"
\* A time as time.Now() returns it, with a monotonic clock reading, and the
\* same instant without the reading.
MonotonicTime == "2018-12-01T00:00:00Z m=+0.1"
WallTime == "2018-12-01T00:00:00Z"
\* Values time.Now() returns inside settleInvoice.
SettleTimes == {"2018-12-02T00:00:00Z"}
\* Values of amtPaid passed to SettleInvoice.
Amounts == {5, 6}
\* The amount paid where one value is enough.
FullAmount == {5}

\* The cursors callers pass to the since-index scans.
SinceIndexes == 0..(NumPreimages + 2)

\* The zero value Invoice{}.
ZeroInvoice ==
    [Memo |-> 0, Receipt |-> 0, PaymentRequest |-> 0,
     CreationDate |-> ZeroTime, SettleDate |-> ZeroTime,
     ExternalPreimage |-> FALSE, PaymentHash |-> zeroHash,
     PaymentPreimage |-> zeroPreimage, Value |-> 0, Settled |-> FALSE,
     AddIndex |-> 0, SettleIndex |-> 0, AmtPaid |-> 0]

\* An invoice as a caller fills it in.
InvoiceOf(m, c, e, h, p, s) ==
    [ZeroInvoice EXCEPT !.Memo = m, !.Receipt = 7, !.CreationDate = c,
                        !.ExternalPreimage = e, !.PaymentHash = h,
                        !.PaymentPreimage = p, !.Value = 10, !.Settled = s]

\* Invoices within the size ceilings whose dates can be encoded.
WellFormedInvoices ==
    { InvoiceOf(4, WallTime, e, h, p, s) :
        e \in BOOLEAN, h \in Hashes, p \in Preimages, s \in BOOLEAN }

\* The invoices callers hand to AddInvoice: the well-formed ones, ones with
\* an oversized memo and ones whose creation date cannot be encoded.
NewInvoices ==
    WellFormedInvoices
    \cup { InvoiceOf(MaxMemoSize + 1, WallTime, e, h, p, FALSE) :
             e \in BOOLEAN, h \in Hashes, p \in Preimages }
    \cup { InvoiceOf(4, BadZoneTime, e, h, p, FALSE) :
             e \in BOOLEAN, h \in {zeroHash, SHA256(NumPreimages)},
             p \in Preimages }
    \cup { InvoiceOf(4, MonotonicTime, FALSE, zeroHash, NumPreimages, FALSE) }

\* For the recorded history: the well-formed invoices submitted unsettled, a
\* local-preimage one without the hash field the ledger ignores.
HistoryInvoices ==
    { i \in WellFormedInvoices :
        /\ i.ExternalPreimage \/ i.PaymentHash = zeroHash
        /\ ~i.Settled }

(***************************************************************************)
(* The key-value store: a bucket is a function from its keys to values.    *)
(***************************************************************************)
Put(f, k, v) == [x \in (DOMAIN f) \cup {k} |-> IF x = k THEN v ELSE f[x]]

Min(S) == CHOOSE x \in S : \A y \in S : x <= y

\* The keys of a bucket in ascending byte order (big-endian integers).
RECURSIVE SortedKeys(_)
SortedKeys(S) == IF S = {} THEN << >> ELSE <<Min(S)>> \o SortedKeys(S \ {Min(S)})

\* A uint64 is written as the int64 with the same bits: MaxUint64 is -1 and
\* adding one to it gives zero, as in Go.  The order of the big-endian keys
\* is the unsigned one.
MaxUint64 == -1
Uint64Less(a, b) == IF (a < 0) = (b < 0) THEN a < b ELSE b < 0

Max(S) == CHOOSE x \in S : \A y \in S : y <= x

\* bolt.Cursor: a position is << >> (nil key) or <<k>>.
CursorSeek(keys, k) ==
    LET ge == {x \in keys : ~Uint64Less(x, k)}
    IN  IF ge = {} THEN << >> ELSE <<Min(ge)>>

CursorNext(keys, cur) ==
    IF cur = << >> THEN << >>
    ELSE LET gt == {x \in keys : x > cur[1]} IN
         IF gt = {} THEN << >> ELSE <<Min(gt)>>

CursorPrev(keys, cur) ==
    IF cur = << >> THEN << >>
    ELSE LET lt == {x \in keys : x < cur[1]} IN
         IF lt = {} THEN << >> ELSE <<Max(lt)>>

CursorLast(keys) == IF keys = {} THEN << >> ELSE <<Max(keys)>>

(***************************************************************************)
(* Pure functions of invoices.go.                                          *)
(***************************************************************************)
\* getPaymentHash returning an external hash without looking at it.
getPaymentHashUnchecked(i) ==
    IF i.ExternalPreimage
    THEN [hash |-> i.PaymentHash, err |-> Nil]
    ELSE IF i.PaymentPreimage = zeroPreimage
         THEN [hash |-> zeroHash, err |-> ErrNoPreimage]
         ELSE [hash |-> SHA256(i.PaymentPreimage), err |-> Nil]

getPaymentHash(i) ==
    IF i.ExternalPreimage
    THEN IF i.PaymentHash = zeroHash
         THEN [hash |-> zeroHash, err |-> ErrNoPaymentHash]
         ELSE [hash |-> i.PaymentHash, err |-> Nil]
    ELSE IF i.PaymentPreimage = zeroPreimage
         THEN [hash |-> zeroHash, err |-> ErrNoPreimage]
         ELSE [hash |-> SHA256(i.PaymentPreimage), err |-> Nil]

validateInvoice(i) ==
    IF i.Memo > MaxMemoSize THEN ErrMemoSize
    ELSE IF i.Receipt > MaxReceiptSize THEN ErrReceiptSize
    ELSE IF i.PaymentRequest > MaxPaymentRequestSize THEN ErrPaymentRequestSize
    ELSE Nil

\* time.Time.MarshalBinary: the instant, or an error for a zone offset that
\* has no encoding.  The monotonic clock reading is not encoded.
MarshalBinary(t) ==
    IF t = BadZoneTime THEN [bytes |-> ZeroTime, err |-> ErrMarshalBinary]
    ELSE IF t = MonotonicTime THEN [bytes |-> WallTime, err |-> Nil]
    ELSE [bytes |-> t, err |-> Nil]

\* The record written for an invoice: the fields in wire order.  The
\* payment hash is written as zeroHash unless the preimage is external.
serializeInvoice(i) ==
    LET birth == MarshalBinary(i.CreationDate)
        settle == MarshalBinary(i.SettleDate)
        ph == getPaymentHash(i)
    IN  IF birth.err # Nil THEN [bytes |-> ZeroInvoice, err |-> birth.err]
        ELSE IF settle.err # Nil THEN [bytes |-> ZeroInvoice, err |-> settle.err]
        ELSE IF i.ExternalPreimage /\ ph.err # Nil
        THEN [bytes |-> ZeroInvoice, err |-> ph.err]
        ELSE [bytes |->
                [Memo |-> i.Memo, Receipt |-> i.Receipt,
                 PaymentRequest |-> i.PaymentRequest,
                 CreationDate |-> birth.bytes, SettleDate |-> settle.bytes,
                 PaymentPreimage |-> i.PaymentPreimage,
                 PaymentHash |-> IF i.ExternalPreimage THEN ph.hash ELSE zeroHash,
                 Value |-> i.Value, Settled |-> i.Settled,
                 AddIndex |-> i.AddIndex, SettleIndex |-> i.SettleIndex,
                 AmtPaid |-> i.AmtPaid,
                 ExternalPreimage |-> i.ExternalPreimage],
              err |-> Nil]

\* A decoder that leaves the settle index and the amount paid unread.
deserializeInvoiceTermsOnly(b) ==
    IF \/ b.Memo > MaxMemoSize
       \/ b.Receipt > MaxReceiptSize
       \/ b.PaymentRequest > MaxPaymentRequestSize
    THEN [invoice |-> ZeroInvoice, err |-> ErrDecode]
    ELSE [invoice |->
            [ZeroInvoice EXCEPT
                !.Memo = b.Memo, !.Receipt = b.Receipt,
                !.PaymentRequest = b.PaymentRequest,
                !.CreationDate = b.CreationDate, !.SettleDate = b.SettleDate,
                !.ExternalPreimage = b.ExternalPreimage,
                !.PaymentHash = IF b.ExternalPreimage THEN b.PaymentHash
                                ELSE zeroHash,
                !.PaymentPreimage = b.PaymentPreimage,
                !.Value = b.Value, !.Settled = b.Settled,
                !.AddIndex = b.AddIndex],
          err |-> Nil]

\* The invoice read back from a record; the size ceilings are enforced
\* again and the hash of a local-preimage invoice is dropped.
deserializeInvoice(b) ==
    IF \/ b.Memo > MaxMemoSize
       \/ b.Receipt > MaxReceiptSize
       \/ b.PaymentRequest > MaxPaymentRequestSize
    THEN [invoice |-> ZeroInvoice, err |-> ErrDecode]
    ELSE [invoice |->
            [Memo |-> b.Memo, Receipt |-> b.Receipt,
             PaymentRequest |-> b.PaymentRequest,
             CreationDate |-> b.CreationDate, SettleDate |-> b.SettleDate,
             ExternalPreimage |-> b.ExternalPreimage,
             PaymentHash |-> IF b.ExternalPreimage THEN b.PaymentHash ELSE zeroHash,
             PaymentPreimage |-> b.PaymentPreimage,
             Value |-> b.Value, Settled |-> b.Settled,
             AddIndex |-> b.AddIndex, SettleIndex |-> b.SettleIndex,
             AmtPaid |-> b.AmtPaid],
          err |-> Nil]

fetchInvoice(invoiceNum, invoicesB) ==
    IF invoiceNum \notin DOMAIN invoicesB
    THEN [invoice |-> ZeroInvoice, err |-> ErrInvoiceNotFound]
    ELSE deserializeInvoice(invoicesB[invoiceNum])

(***************************************************************************)
(* The database.                                                           *)
(***************************************************************************)
VARIABLES
    buckets,       \* the buckets that exist
    invoices,      \* invoiceBucket: invoice number -> record
    invoiceIndex,  \* invoiceIndexBucket: payment hash -> invoice number
    numInvoices,   \* the value under numInvoicesKey: << >> if absent, else <<n>>
    addIndex,      \* addIndexBucket: add sequence number -> invoice number
    addSeq,        \* the sequence of addIndexBucket
    settleIndex,   \* settleIndexBucket: settle sequence number -> invoice number
    settleSeq,     \* the sequence of settleIndexBucket
    last,          \* the last call: method, arguments and what it returned
    nAddOK,        \* history: number of AddInvoice calls that returned nil
    nSettled,      \* history: number of SettleInvoice calls that settled
    firstSettle,   \* history: hash -> invoice returned by the first nil-error SettleInvoice
    reveals,       \* history: <<hash, preimage>> of AddInvoicePreimage calls that returned nil
    calls,         \* concurrent callers of AddInvoice: caller -> where its call stands
    rwlock,        \* the caller holding bolt's writer lock, or NoLock
    chain          \* a caller paging through QueryInvoices: where its chain stands

dbvars == <<buckets, invoices, invoiceIndex, numInvoices, addIndex, addSeq,
            settleIndex, settleSeq>>
vars == <<buckets, invoices, invoiceIndex, numInvoices, addIndex, addSeq,
          settleIndex, settleSeq, last, nAddOK, nSettled, firstSettle, reveals,
          calls, rwlock, chain>>
\* The callers that run concurrently; the calls of the other
\* specifications are made one after the other.
callers == <<calls, rwlock, chain>>

\* The database as one value, as a transaction sees it.
DB ==
    [buckets |-> buckets, invoices |-> invoices, invoiceIndex |-> invoiceIndex,
     numInvoices |-> numInvoices, addIndex |-> addIndex, addSeq |-> addSeq,
     settleIndex |-> settleIndex, settleSeq |-> settleSeq]

EmptyDB ==
    [buckets |-> {}, invoices |-> << >>, invoiceIndex |-> << >>,
     numInvoices |-> << >>, addIndex |-> << >>, addSeq |-> 0,
     settleIndex |-> << >>, settleSeq |-> 0]

\* The database after the call.
Store(d) ==
    /\ buckets' = d.buckets
    /\ invoices' = d.invoices
    /\ invoiceIndex' = d.invoiceIndex
    /\ numInvoices' = d.numInvoices
    /\ addIndex' = d.addIndex
    /\ addSeq' = d.addSeq
    /\ settleIndex' = d.settleIndex
    /\ settleSeq' = d.settleSeq

\* An Update that keeps the writes of a failed transaction body.
UpdateWithoutRollback(d, r) == r.db

\* bolt's DB.Update: the writes of the transaction body are committed if it
\* returned nil and rolled back otherwise.
Update(d, r) == IF r.err = Nil THEN r.db ELSE d

CreateBucketIfNotExists(d, names) == [d EXCEPT !.buckets = @ \cup names]

\* The zero value InvoiceQuery{}.
ZeroQuery ==
    [IndexOffset |-> 0, NumMaxInvoices |-> 0, PendingOnly |-> FALSE,
     Reversed |-> FALSE]

NoCall ==
    [op |-> "none", inv |-> ZeroInvoice, hash |-> zeroHash,
     preimage |-> zeroPreimage, amt |-> 0, since |-> 0, pendingOnly |-> FALSE,
     q |-> ZeroQuery,
     err |-> Nil, idx |-> 0, ret |-> ZeroInvoice, seq |-> << >>,
     FirstIndexOffset |-> 0, LastIndexOffset |-> 0,
     step |-> "none"]

(***************************************************************************)
(* AddInvoice                                                              *)
(***************************************************************************)
\* putInvoice writing the record before the add index is set in it.
putInvoiceNoAddIndex(d, i, invoiceNum) ==
    LET d1 == [d EXCEPT !.numInvoices = <<invoiceNum + 1>>]
        ph == getPaymentHash(i)
    IN  IF ph.err # Nil
        THEN [db |-> d1, idx |-> 0, err |-> ph.err, inv |-> i,
              step |-> "getPaymentHash"]
        ELSE
        LET d2 == [d1 EXCEPT !.invoiceIndex = Put(@, ph.hash, invoiceNum)]
            nextAddSeqNo == d2.addSeq + 1
            d3 == [d2 EXCEPT !.addSeq = nextAddSeqNo,
                             !.addIndex = Put(@, nextAddSeqNo, invoiceNum)]
            i2 == [i EXCEPT !.AddIndex = nextAddSeqNo]
            ser == serializeInvoice(i)
        IN  IF ser.err # Nil
            THEN [db |-> d3, idx |-> 0, err |-> Nil, inv |-> i2,
                  step |-> "serializeInvoice"]
            ELSE [db |-> [d3 EXCEPT !.invoices = Put(@, invoiceNum, ser.bytes)],
                  idx |-> nextAddSeqNo, err |-> Nil, inv |-> i2,
                  step |-> "none"]

\* putInvoice leaving the invoice counter where it was.
putInvoiceCounterKept(d, i, invoiceNum) ==
    LET ph == getPaymentHash(i)
    IN  IF ph.err # Nil
        THEN [db |-> d, idx |-> 0, err |-> ph.err, inv |-> i,
              step |-> "getPaymentHash"]
        ELSE
        LET d2 == [d EXCEPT !.invoiceIndex = Put(@, ph.hash, invoiceNum)]
            nextAddSeqNo == d2.addSeq + 1
            d3 == [d2 EXCEPT !.addSeq = nextAddSeqNo,
                             !.addIndex = Put(@, nextAddSeqNo, invoiceNum)]
            i2 == [i EXCEPT !.AddIndex = nextAddSeqNo]
            ser == serializeInvoice(i2)
        IN  IF ser.err # Nil
            THEN [db |-> d3, idx |-> 0, err |-> Nil, inv |-> i2,
                  step |-> "serializeInvoice"]
            ELSE [db |-> [d3 EXCEPT !.invoices = Put(@, invoiceNum, ser.bytes)],
                  idx |-> nextAddSeqNo, err |-> Nil, inv |-> i2,
                  step |-> "none"]

\* The invoice counter is a uint32, written like a uint64 as the signed
\* integer with the same bits, so that adding one to the largest gives zero.
putInvoice(d, i, invoiceNum) ==
    LET d1 == [d EXCEPT !.numInvoices = <<invoiceNum + 1>>]
        ph == getPaymentHash(i)
    IN  IF ph.err # Nil
        THEN [db |-> d1, idx |-> 0, err |-> ph.err, inv |-> i,
              step |-> "getPaymentHash"]
        ELSE
        LET d2 == [d1 EXCEPT !.invoiceIndex = Put(@, ph.hash, invoiceNum)]
            nextAddSeqNo == d2.addSeq + 1
            d3 == [d2 EXCEPT !.addSeq = nextAddSeqNo,
                             !.addIndex = Put(@, nextAddSeqNo, invoiceNum)]
            i2 == [i EXCEPT !.AddIndex = nextAddSeqNo]
            ser == serializeInvoice(i2)
        IN  IF ser.err # Nil
            \* "return 0, nil": the serialisation error is dropped
            THEN [db |-> d3, idx |-> 0, err |-> Nil, inv |-> i2,
                  step |-> "serializeInvoice"]
            ELSE [db |-> [d3 EXCEPT !.invoices = Put(@, invoiceNum, ser.bytes)],
                  idx |-> nextAddSeqNo, err |-> Nil, inv |-> i2,
                  step |-> "none"]

\* AddInvoiceTx without the look-up of the hash in the index.
AddInvoiceTxNoDuplicateCheck(d, newInvoice) ==
    LET d0 == CreateBucketIfNotExists(
                  d, {invoiceBucket, invoiceIndexBucket, addIndexBucket})
        ph == getPaymentHash(newInvoice)
    IN  IF ph.err # Nil
        THEN [db |-> d0, idx |-> 0, err |-> ph.err, inv |-> newInvoice,
              step |-> "getPaymentHash"]
        ELSE
        LET invoiceNum == IF d0.numInvoices = << >> THEN 0 ELSE d0.numInvoices[1]
            d1 == IF d0.numInvoices = << >>
                  THEN [d0 EXCEPT !.numInvoices = <<0>>] ELSE d0
        IN  putInvoice(d1, newInvoice, invoiceNum)

\* The body of AddInvoice's transaction.
AddInvoiceTx(d, newInvoice) ==
    LET d0 == CreateBucketIfNotExists(
                  d, {invoiceBucket, invoiceIndexBucket, addIndexBucket})
        ph == getPaymentHash(newInvoice)
    IN  IF ph.err # Nil
        THEN [db |-> d0, idx |-> 0, err |-> ph.err, inv |-> newInvoice,
              step |-> "getPaymentHash"]
        ELSE IF ph.hash \in DOMAIN d0.invoiceIndex
        THEN [db |-> d0, idx |-> 0, err |-> ErrDuplicateInvoice,
              inv |-> newInvoice, step |-> "duplicate"]
        ELSE
        LET invoiceNum == IF d0.numInvoices = << >> THEN 0 ELSE d0.numInvoices[1]
            d1 == IF d0.numInvoices = << >>
                  THEN [d0 EXCEPT !.numInvoices = <<0>>] ELSE d0
        IN  putInvoice(d1, newInvoice, invoiceNum)

AddInvoice(newInvoice) ==
    LET v == validateInvoice(newInvoice)
        r == IF v # Nil
             THEN [db |-> DB, idx |-> 0, err |-> v, inv |-> newInvoice,
                   step |-> "validateInvoice"]
             ELSE AddInvoiceTx(DB, newInvoice)
    IN  /\ Store(Update(DB, r))
        /\ last' = [NoCall EXCEPT !.op = "AddInvoice", !.inv = newInvoice,
                                  !.err = r.err,
                                  !.idx = IF r.err = Nil THEN r.idx ELSE 0,
                                  !.ret = r.inv, !.step = r.step]
        /\ nAddOK' = IF r.err = Nil THEN nAddOK + 1 ELSE nAddOK
        /\ UNCHANGED nSettled

(***************************************************************************)
(* LookupInvoice                                                           *)
(***************************************************************************)
LookupInvoiceTx(d, paymentHash) ==
    IF invoiceBucket \notin d.buckets
    THEN [invoice |-> ZeroInvoice, err |-> ErrNoInvoicesCreated]
    ELSE IF invoiceIndexBucket \notin d.buckets
    THEN [invoice |-> ZeroInvoice, err |-> ErrNoInvoicesCreated]
    ELSE IF paymentHash \notin DOMAIN d.invoiceIndex
    THEN [invoice |-> ZeroInvoice, err |-> ErrInvoiceNotFound]
    ELSE LET f == fetchInvoice(d.invoiceIndex[paymentHash], d.invoices)
         IN  IF f.err # Nil THEN [invoice |-> ZeroInvoice, err |-> f.err] ELSE f

LookupInvoice(paymentHash) ==
    LET r == LookupInvoiceTx(DB, paymentHash)
    IN  /\ last' = [NoCall EXCEPT !.op = "LookupInvoice", !.hash = paymentHash,
                                  !.err = r.err, !.ret = r.invoice]
        /\ UNCHANGED <<dbvars, nAddOK, nSettled>>

(***************************************************************************)
(* SettleInvoice                                                           *)
(***************************************************************************)
\* settleInvoice without the early return for a settled invoice.
settleInvoiceNotIdempotent(d, invoiceNum, amtPaid, now) ==
    LET f == fetchInvoice(invoiceNum, d.invoices)
    IN  IF f.err # Nil
        THEN [db |-> d, invoice |-> ZeroInvoice, err |-> f.err]
        ELSE
        LET nextSettleSeqNo == d.settleSeq + 1
            d1 == [d EXCEPT !.settleSeq = nextSettleSeqNo,
                            !.settleIndex = Put(@, nextSettleSeqNo, invoiceNum)]
            invoice == [f.invoice EXCEPT !.AmtPaid = amtPaid,
                                         !.Settled = TRUE,
                                         !.SettleDate = now,
                                         !.SettleIndex = nextSettleSeqNo]
            ser == serializeInvoice(invoice)
        IN  IF ser.err # Nil
            THEN [db |-> d1, invoice |-> ZeroInvoice, err |-> ser.err]
            ELSE [db |-> [d1 EXCEPT !.invoices = Put(@, invoiceNum, ser.bytes)],
                  invoice |-> invoice, err |-> Nil]

\* settleInvoice that keeps the settle index of a settled invoice but
\* writes the amount and date of the repeated settle.
settleInvoiceOverwrite(d, invoiceNum, amtPaid, now) ==
    LET f == fetchInvoice(invoiceNum, d.invoices)
    IN  IF f.err # Nil
        THEN [db |-> d, invoice |-> ZeroInvoice, err |-> f.err]
        ELSE
        LET nextSettleSeqNo == IF f.invoice.Settled THEN f.invoice.SettleIndex
                               ELSE d.settleSeq + 1
            d1 == IF f.invoice.Settled THEN d
                  ELSE [d EXCEPT !.settleSeq = nextSettleSeqNo,
                                 !.settleIndex = Put(@, nextSettleSeqNo, invoiceNum)]
            invoice == [f.invoice EXCEPT !.AmtPaid = amtPaid,
                                         !.Settled = TRUE,
                                         !.SettleDate = now,
                                         !.SettleIndex = nextSettleSeqNo]
            ser == serializeInvoice(invoice)
        IN  IF ser.err # Nil
            THEN [db |-> d1, invoice |-> ZeroInvoice, err |-> ser.err]
            ELSE [db |-> [d1 EXCEPT !.invoices = Put(@, invoiceNum, ser.bytes)],
                  invoice |-> invoice, err |-> Nil]

settleInvoice(d, invoiceNum, amtPaid, now) ==
    LET f == fetchInvoice(invoiceNum, d.invoices)
    IN  IF f.err # Nil
        THEN [db |-> d, invoice |-> ZeroInvoice, err |-> f.err]
        \* idempotency: an already settled invoice is returned as stored
        ELSE IF f.invoice.Settled
        THEN [db |-> d, invoice |-> f.invoice, err |-> Nil]
        ELSE
        LET nextSettleSeqNo == d.settleSeq + 1
            d1 == [d EXCEPT !.settleSeq = nextSettleSeqNo,
                            !.settleIndex = Put(@, nextSettleSeqNo, invoiceNum)]
            invoice == [f.invoice EXCEPT !.AmtPaid = amtPaid,
                                         !.Settled = TRUE,
                                         !.SettleDate = now,
                                         !.SettleIndex = nextSettleSeqNo]
            ser == serializeInvoice(invoice)
        IN  IF ser.err # Nil
            THEN [db |-> d1, invoice |-> ZeroInvoice, err |-> ser.err]
            ELSE [db |-> [d1 EXCEPT !.invoices = Put(@, invoiceNum, ser.bytes)],
                  invoice |-> invoice, err |-> Nil]

\* The body of SettleInvoice's transaction.
SettleInvoiceTx(d, paymentHash, amtPaid, now) ==
    LET d0 == CreateBucketIfNotExists(
                  d, {invoiceBucket, invoiceIndexBucket, settleIndexBucket})
    IN  IF paymentHash \notin DOMAIN d0.invoiceIndex
        THEN [db |-> d0, invoice |-> ZeroInvoice, err |-> ErrInvoiceNotFound]
        ELSE settleInvoice(d0, d0.invoiceIndex[paymentHash], amtPaid, now)

\* The call finds a stored, unsettled invoice under the hash.
SettlesNow(d, paymentHash) ==
    /\ paymentHash \in DOMAIN d.invoiceIndex
    /\ d.invoiceIndex[paymentHash] \in DOMAIN d.invoices
    /\ ~d.invoices[d.invoiceIndex[paymentHash]].Settled

SettleInvoice(paymentHash, amtPaid, now) ==
    LET r == SettleInvoiceTx(DB, paymentHash, amtPaid, now)
    IN  /\ Store(Update(DB, r))
        /\ last' = [NoCall EXCEPT !.op = "SettleInvoice", !.hash = paymentHash,
                                  !.amt = amtPaid, !.err = r.err,
                                  !.ret = IF r.err = Nil THEN r.invoice
                                          ELSE ZeroInvoice,
                                  !.step = IF r.err = Nil /\ SettlesNow(DB, paymentHash)
                                           THEN "settled" ELSE "none"]
        /\ nSettled' = IF r.err = Nil /\ SettlesNow(DB, paymentHash)
                       THEN nSettled + 1 ELSE nSettled
        /\ UNCHANGED nAddOK

(***************************************************************************)
(* AddInvoicePreimage                                                      *)
(***************************************************************************)
\* addInvoicePreimage that never writes the updated record.
addInvoicePreimageNoPut(d, invoiceNum, paymentPreimage) ==
    LET f == fetchInvoice(invoiceNum, d.invoices)
    IN  IF f.err # Nil THEN [db |-> d, err |-> f.err]
        ELSE IF ~f.invoice.ExternalPreimage
        THEN [db |-> d, err |-> ErrNotExternal]
        ELSE IF f.invoice.PaymentPreimage # zeroPreimage
        THEN [db |-> d, err |-> ErrOverwritePreimage]
        ELSE [db |-> d, err |-> Nil]

\* addInvoicePreimage without the check for a preimage already set.
addInvoicePreimageOverwrite(d, invoiceNum, paymentPreimage) ==
    LET f == fetchInvoice(invoiceNum, d.invoices)
    IN  IF f.err # Nil THEN [db |-> d, err |-> f.err]
        ELSE IF ~f.invoice.ExternalPreimage
        THEN [db |-> d, err |-> ErrNotExternal]
        ELSE
        LET invoice == [f.invoice EXCEPT !.PaymentPreimage = paymentPreimage]
            ser == serializeInvoice(invoice)
        IN  IF ser.err # Nil
            THEN [db |-> d, err |-> Nil]
            ELSE [db |-> [d EXCEPT !.invoices = Put(@, invoiceNum, ser.bytes)],
                  err |-> Nil]

\* addInvoicePreimage without the check of the ExternalPreimage flag.
addInvoicePreimageAnyInvoice(d, invoiceNum, paymentPreimage) ==
    LET f == fetchInvoice(invoiceNum, d.invoices)
    IN  IF f.err # Nil THEN [db |-> d, err |-> f.err]
        ELSE IF f.invoice.PaymentPreimage # zeroPreimage
        THEN [db |-> d, err |-> ErrOverwritePreimage]
        ELSE
        LET invoice == [f.invoice EXCEPT !.PaymentPreimage = paymentPreimage]
            ser == serializeInvoice(invoice)
        IN  IF ser.err # Nil
            THEN [db |-> d, err |-> Nil]
            ELSE [db |-> [d EXCEPT !.invoices = Put(@, invoiceNum, ser.bytes)],
                  err |-> Nil]

\* addInvoicePreimage that also indexes the invoice under the hash of the
\* revealed preimage.
addInvoicePreimageReindexed(d, invoiceNum, paymentPreimage) ==
    LET f == fetchInvoice(invoiceNum, d.invoices)
    IN  IF f.err # Nil THEN [db |-> d, err |-> f.err]
        ELSE IF ~f.invoice.ExternalPreimage
        THEN [db |-> d, err |-> ErrNotExternal]
        ELSE IF f.invoice.PaymentPreimage # zeroPreimage
        THEN [db |-> d, err |-> ErrOverwritePreimage]
        ELSE
        LET invoice == [f.invoice EXCEPT !.PaymentPreimage = paymentPreimage]
            ser == serializeInvoice(invoice)
        IN  IF ser.err # Nil
            THEN [db |-> d, err |-> Nil]
            ELSE [db |-> [d EXCEPT
                            !.invoices = Put(@, invoiceNum, ser.bytes),
                            !.invoiceIndex =
                                Put(@, SHA256(paymentPreimage), invoiceNum)],
                  err |-> Nil]

addInvoicePreimage(d, invoiceNum, paymentPreimage) ==
    LET f == fetchInvoice(invoiceNum, d.invoices)
    IN  IF f.err # Nil THEN [db |-> d, err |-> f.err]
        ELSE IF ~f.invoice.ExternalPreimage
        THEN [db |-> d, err |-> ErrNotExternal]
        ELSE IF f.invoice.PaymentPreimage # zeroPreimage
        THEN [db |-> d, err |-> ErrOverwritePreimage]
        ELSE
        LET invoice == [f.invoice EXCEPT !.PaymentPreimage = paymentPreimage]
            ser == serializeInvoice(invoice)
        IN  IF ser.err # Nil
            \* "return nil": the serialisation error is dropped
            THEN [db |-> d, err |-> Nil]
            ELSE [db |-> [d EXCEPT !.invoices = Put(@, invoiceNum, ser.bytes)],
                  err |-> Nil]

\* The body of AddInvoicePreimage's transaction.
AddInvoicePreimageTx(d, paymentHash, paymentPreimage) ==
    LET d0 == CreateBucketIfNotExists(d, {invoiceBucket, invoiceIndexBucket})
    IN  IF paymentHash \notin DOMAIN d0.invoiceIndex
        THEN [db |-> d0, err |-> ErrInvoiceNotFound]
        ELSE addInvoicePreimage(d0, d0.invoiceIndex[paymentHash],
                                paymentPreimage)

AddInvoicePreimage(paymentHash, paymentPreimage) ==
    LET r == AddInvoicePreimageTx(DB, paymentHash, paymentPreimage)
    IN  /\ Store(Update(DB, r))
        /\ last' = [NoCall EXCEPT !.op = "AddInvoicePreimage",
                                  !.hash = paymentHash,
                                  !.preimage = paymentPreimage, !.err = r.err]
        /\ UNCHANGED <<nAddOK, nSettled>>

(***************************************************************************)
(* FetchAllInvoices                                                        *)
(***************************************************************************)
\* Bucket.ForEach over the invoice bucket: the keys in ascending order; the
\* nested buckets have a nil value and are skipped.
RECURSIVE ForEachInvoice(_, _, _, _)
ForEachInvoice(invoicesB, keys, pendingOnly, acc) ==
    IF keys = << >> THEN [invoices |-> acc, err |-> Nil]
    ELSE LET r == deserializeInvoice(invoicesB[Head(keys)])
         IN  IF r.err # Nil THEN [invoices |-> acc, err |-> r.err]
             ELSE IF pendingOnly /\ r.invoice.Settled
             THEN ForEachInvoice(invoicesB, Tail(keys), pendingOnly, acc)
             ELSE ForEachInvoice(invoicesB, Tail(keys), pendingOnly,
                                 Append(acc, r.invoice))

\* FetchAllInvoicesTx without the pendingOnly filter.
FetchAllInvoicesTxUnfiltered(d, pendingOnly) ==
    IF invoiceBucket \notin d.buckets
    THEN [invoices |-> << >>, err |-> ErrNoInvoicesCreated]
    ELSE ForEachInvoice(d.invoices, SortedKeys(DOMAIN d.invoices),
                        FALSE, << >>)

FetchAllInvoicesTx(d, pendingOnly) ==
    IF invoiceBucket \notin d.buckets
    THEN [invoices |-> << >>, err |-> ErrNoInvoicesCreated]
    ELSE ForEachInvoice(d.invoices, SortedKeys(DOMAIN d.invoices),
                        pendingOnly, << >>)

FetchAllInvoices(pendingOnly) ==
    LET r == FetchAllInvoicesTx(DB, pendingOnly)
    IN  /\ last' = [NoCall EXCEPT !.op = "FetchAllInvoices",
                                  !.pendingOnly = pendingOnly, !.err = r.err,
                                  !.seq = IF r.err # Nil THEN << >>
                                          ELSE r.invoices]
        /\ UNCHANGED <<dbvars, nAddOK, nSettled>>

(***************************************************************************)
(* InvoicesSettledSince                                                    *)
(***************************************************************************)
\* The loop over an index bucket from the cursor position cur: every entry
\* whose key is greater than startIndex is fetched and appended.
RECURSIVE ScanSince(_, _, _, _, _)
ScanSince(index, invoicesB, cur, startIndex, acc) ==
    IF cur = << >> \/ ~(cur[1] > startIndex)
    THEN [invoices |-> acc, err |-> Nil]
    ELSE LET f == fetchInvoice(index[cur[1]], invoicesB)
         IN  IF f.err # Nil THEN [invoices |-> acc, err |-> f.err]
             ELSE ScanSince(index, invoicesB, CursorNext(DOMAIN index, cur),
                            startIndex, Append(acc, f.invoice))

\* InvoicesSettledSinceTx walking the invoice bucket instead of the settle
\* index: the settled invoices come out in the order of their creation.
InvoicesSettledSinceTxByCreation(d, sinceSettleIndex) ==
    IF invoiceBucket \notin d.buckets
    THEN [invoices |-> << >>, err |-> ErrNoInvoicesCreated]
    ELSE IF settleIndexBucket \notin d.buckets
    THEN [invoices |-> << >>, err |-> ErrNoInvoicesCreated]
    ELSE LET ks == SortedKeys({n \in DOMAIN d.invoices :
                        d.invoices[n].SettleIndex > sinceSettleIndex})
         IN  [invoices |-> [x \in 1..Len(ks) |->
                               deserializeInvoice(d.invoices[ks[x]]).invoice],
              err |-> Nil]

InvoicesSettledSinceTx(d, sinceSettleIndex) ==
    IF invoiceBucket \notin d.buckets
    THEN [invoices |-> << >>, err |-> ErrNoInvoicesCreated]
    ELSE IF settleIndexBucket \notin d.buckets
    THEN [invoices |-> << >>, err |-> ErrNoInvoicesCreated]
    ELSE LET keys == DOMAIN d.settleIndex
             \* Seek to the starting index, then advance past it
             sought == CursorSeek(keys, sinceSettleIndex)
         IN  ScanSince(d.settleIndex, d.invoices, CursorNext(keys, sought),
                       sinceSettleIndex, << >>)

InvoicesSettledSince(sinceSettleIndex) ==
    LET r == IF sinceSettleIndex = 0
             THEN [invoices |-> << >>, err |-> Nil]
             ELSE InvoicesSettledSinceTx(DB, sinceSettleIndex)
    IN  /\ last' = [NoCall EXCEPT !.op = "InvoicesSettledSince",
                                  !.since = sinceSettleIndex, !.err = r.err,
                                  !.seq = IF r.err # Nil THEN << >>
                                          ELSE r.invoices]
        /\ UNCHANGED <<dbvars, nAddOK, nSettled>>

(***************************************************************************)
(* InvoicesAddedSince                                                      *)
(***************************************************************************)
InvoicesAddedSinceTx(d, sinceAddIndex) ==
    IF invoiceBucket \notin d.buckets
    THEN [invoices |-> << >>, err |-> ErrNoInvoicesCreated]
    ELSE IF addIndexBucket \notin d.buckets
    THEN [invoices |-> << >>, err |-> ErrNoInvoicesCreated]
    ELSE LET keys == DOMAIN d.addIndex
             \* Seek to the starting index, then advance past it
             sought == CursorSeek(keys, sinceAddIndex)
         IN  ScanSince(d.addIndex, d.invoices, CursorNext(keys, sought),
                       sinceAddIndex, << >>)

\* InvoicesAddedSince without the reserved meaning of index zero.
InvoicesAddedSinceNoSentinel(sinceAddIndex) ==
    LET r == InvoicesAddedSinceTx(DB, sinceAddIndex)
        err == IF r.err = ErrNoInvoicesCreated THEN Nil ELSE r.err
    IN  /\ last' = [NoCall EXCEPT !.op = "InvoicesAddedSince",
                                  !.since = sinceAddIndex, !.err = err,
                                  !.seq = IF err # Nil THEN << >>
                                          ELSE r.invoices]
        /\ UNCHANGED <<dbvars, nAddOK, nSettled>>

InvoicesAddedSince(sinceAddIndex) ==
    LET r == IF sinceAddIndex = 0
             THEN [invoices |-> << >>, err |-> Nil]
             ELSE InvoicesAddedSinceTx(DB, sinceAddIndex)
        \* ErrNoInvoicesCreated is swallowed: the empty set is returned
        err == IF r.err = ErrNoInvoicesCreated THEN Nil ELSE r.err
    IN  /\ last' = [NoCall EXCEPT !.op = "InvoicesAddedSince",
                                  !.since = sinceAddIndex, !.err = err,
                                  !.seq = IF err # Nil THEN << >>
                                          ELSE r.invoices]
        /\ UNCHANGED <<dbvars, nAddOK, nSettled>>

(***************************************************************************)
(* QueryInvoices                                                           *)
(***************************************************************************)
\* The position of the cursor over the add index after seeking to index.
keyForIndex(keys, index) == CursorSeek(keys, index)

nextKey(keys, q, cur) ==
    IF q.Reversed THEN CursorPrev(keys, cur) ELSE CursorNext(keys, cur)

RECURSIVE Reverse(_)
Reverse(s) == IF s = << >> THEN << >> ELSE Append(Reverse(Tail(s)), Head(s))

\* The loop of QueryInvoices from the cursor position cur; acc is
\* resp.Invoices.
RECURSIVE QueryLoop(_, _, _, _)
QueryLoop(d, q, cur, acc) ==
    IF cur = << >> THEN [invoices |-> acc, err |-> Nil]
    ELSE IF Len(acc) >= q.NumMaxInvoices THEN [invoices |-> acc, err |-> Nil]
    ELSE LET f == fetchInvoice(d.addIndex[cur[1]], d.invoices)
             next == nextKey(DOMAIN d.addIndex, q, cur)
         IN  IF f.err # Nil THEN [invoices |-> acc, err |-> f.err]
             ELSE IF q.PendingOnly /\ f.invoice.Settled
             THEN QueryLoop(d, q, next, acc)
             ELSE QueryLoop(d, q, next, Append(acc, f.invoice))

\* The body of QueryInvoices' transaction: resp.Invoices and the error.
QueryInvoicesTx(d, q) ==
    IF invoiceBucket \notin d.buckets
    THEN [invoices |-> << >>, err |-> ErrNoInvoicesCreated]
    ELSE IF addIndexBucket \notin d.buckets
    THEN [invoices |-> << >>, err |-> ErrNoInvoicesCreated]
    ELSE
    LET keys == DOMAIN d.addIndex
        forward == keyForIndex(keys, q.IndexOffset + 1)
    IN  IF q.Reversed /\ q.IndexOffset = 1
        THEN [invoices |-> << >>, err |-> Nil]
        ELSE
        LET start == IF ~q.Reversed THEN forward
                     ELSE IF q.IndexOffset = 0 THEN CursorLast(keys)
                     ELSE keyForIndex(keys, q.IndexOffset - 1)
            r == QueryLoop(d, q, start, << >>)
        IN  IF r.err # Nil THEN r
            ELSE IF q.Reversed
            THEN [invoices |-> Reverse(r.invoices), err |-> Nil]
            ELSE r

QueryInvoices(q) ==
    LET r == QueryInvoicesTx(DB, q)
        failed == r.err # Nil /\ r.err # ErrNoInvoicesCreated
        n == Len(r.invoices)
    IN  /\ last' = [NoCall EXCEPT
                       !.op = "QueryInvoices", !.q = q,
                       !.err = IF failed THEN r.err ELSE Nil,
                       !.seq = r.invoices,
                       !.FirstIndexOffset =
                           IF ~failed /\ n > 0 THEN r.invoices[1].AddIndex ELSE 0,
                       !.LastIndexOffset =
                           IF ~failed /\ n > 0 THEN r.invoices[n].AddIndex ELSE 0]
        /\ UNCHANGED <<dbvars, nAddOK, nSettled>>

(***************************************************************************)
(* Callers                                                                 *)
(***************************************************************************)
\* The goroutines that may call AddInvoice at the same time.
Callers == 1..NumCallers

\* No caller holds the writer lock.
NoLock == 0

\* A caller that has not called yet: pc is where its call stands, tx the
\* database as its transaction sees it.
IdleCall ==
    [pc |-> "idle", inv |-> ZeroInvoice, tx |-> EmptyDB, err |-> Nil,
     idx |-> 0]

\* No chain of queries is under way.  pc is "idle", "next" while the caller
\* has a query to make, "done" after an empty result and "failed" after an
\* error; q is the query to make next, invoices what the chain has returned
\* so far in ascending order of the pages, n the number of queries made.
NoChain ==
    [pc |-> "idle", q |-> ZeroQuery, invoices |-> << >>, n |-> 0, err |-> Nil]

(***************************************************************************)
(* Specification                                                           *)
(***************************************************************************)
Init ==
    /\ buckets = EmptyDB.buckets
    /\ invoices = EmptyDB.invoices
    /\ invoiceIndex = EmptyDB.invoiceIndex
    /\ numInvoices = EmptyDB.numInvoices
    /\ addIndex = EmptyDB.addIndex
    /\ addSeq = EmptyDB.addSeq
    /\ settleIndex = EmptyDB.settleIndex
    /\ settleSeq = EmptyDB.settleSeq
    /\ last = NoCall
    /\ nAddOK = 0
    /\ nSettled = 0
    /\ firstSettle = << >>
    /\ reveals = {}
    /\ calls = [c \in Callers |-> IdleCall]
    /\ rwlock = NoLock
    /\ chain = NoChain

\* The recorded history of settlements and reveals; Spec leaves it empty.
history == <<firstSettle, reveals>>

Next ==
    \/ \E i \in NewInvoices : AddInvoice(i) /\ UNCHANGED <<history, callers>>
    \/ \E h \in Hashes : LookupInvoice(h) /\ UNCHANGED <<history, callers>>
    \/ \E h \in Hashes, a \in FullAmount, t \in SettleTimes :
         SettleInvoice(h, a, t) /\ UNCHANGED <<history, callers>>
    \/ \E h \in Hashes, p \in RevealPreimages :
         AddInvoicePreimage(h, p) /\ UNCHANGED <<history, callers>>
    \/ \E b \in BOOLEAN : FetchAllInvoices(b) /\ UNCHANGED <<history, callers>>
    \/ \E k \in SinceIndexes : InvoicesSettledSince(k) /\ UNCHANGED <<history, callers>>

Spec == Init /\ [][Next]_vars

(***************************************************************************)
(* The same ledger with the history of settlements and preimage reveals    *)
(* recorded: what the first SettleInvoice on each hash returned and which  *)
(* AddInvoicePreimage calls returned nil.                                  *)
(***************************************************************************)
AddInvoiceH(i) ==
    AddInvoice(i) /\ UNCHANGED <<history, callers>>

SettleInvoiceH(h, a, t) ==
    /\ SettleInvoice(h, a, t)
    /\ firstSettle' = IF last'.err = Nil /\ h \notin DOMAIN firstSettle
                      THEN Put(firstSettle, h, last'.ret)
                      ELSE firstSettle
    /\ UNCHANGED <<reveals, callers>>

AddInvoicePreimageH(h, p) ==
    /\ AddInvoicePreimage(h, p)
    /\ reveals' = IF last'.err = Nil THEN reveals \cup {<<h, p>>} ELSE reveals
    /\ UNCHANGED <<firstSettle, callers>>

NextH ==
    \/ \E i \in HistoryInvoices : AddInvoiceH(i)
    \/ \E h \in Hashes, a \in Amounts, t \in SettleTimes : SettleInvoiceH(h, a, t)
    \/ \E h \in Hashes, p \in RevealPreimages : AddInvoicePreimageH(h, p)

SpecH == Init /\ [][NextH]_vars

(***************************************************************************)
(* The ledger under the paginated query: invoices are added and settled,   *)
(* and QueryInvoices is run against every state.                           *)
(***************************************************************************)
\* The invoices added: external-preimage invoices with distinct hashes, and
\* one whose creation date cannot be encoded.
QueryNewInvoices ==
    { InvoiceOf(4, WallTime, TRUE, h, zeroPreimage, FALSE) :
        h \in 1..NumQueryInvoices }
    \cup { InvoiceOf(4, BadZoneTime, TRUE, NumQueryInvoices + 1, zeroPreimage,
                     FALSE) }

QueryHashes == 1..NumQueryInvoices

\* Offsets up to past the end of the add index, and the largest uint64.
QueryOffsets == 0..(NumQueryInvoices + 3) \cup {MaxUint64}

Queries ==
    [IndexOffset : QueryOffsets, NumMaxInvoices : 0..NumQueryInvoices,
     PendingOnly : BOOLEAN, Reversed : BOOLEAN]

NextQ ==
    \/ \E i \in QueryNewInvoices : AddInvoice(i) /\ UNCHANGED <<history, callers>>
    \/ \E h \in QueryHashes, a \in FullAmount, t \in SettleTimes :
         SettleInvoice(h, a, t) /\ UNCHANGED <<history, callers>>
    \/ \E q \in Queries : QueryInvoices(q) /\ UNCHANGED <<history, callers>>

SpecQ == Init /\ [][NextQ]_vars

(***************************************************************************)
(* The ledger under the since-index scans: invoices are added and settled, *)
(* and both scans are run against every state.                             *)
(***************************************************************************)
ScanHashes == 1..(NumQueryInvoices + 1)

\* The invoices added: external-preimage invoices with distinct hashes, and
\* one whose creation date cannot be encoded.
ScanNewInvoices ==
    { InvoiceOf(4, WallTime, TRUE, h, zeroPreimage, FALSE) : h \in ScanHashes }
    \cup { InvoiceOf(4, BadZoneTime, TRUE, NumQueryInvoices + 1, zeroPreimage,
                     FALSE) }

\* Cursors up to past the end of the indexes.
ScanSinceIndexes == 0..(NumQueryInvoices + 2)

NextS ==
    \/ \E i \in ScanNewInvoices : AddInvoice(i) /\ UNCHANGED <<history, callers>>
    \/ \E h \in ScanHashes, a \in FullAmount, t \in SettleTimes :
         SettleInvoice(h, a, t) /\ UNCHANGED <<history, callers>>
    \/ \E k \in ScanSinceIndexes : InvoicesAddedSince(k) /\ UNCHANGED <<history, callers>>
    \/ \E k \in ScanSinceIndexes : InvoicesSettledSince(k) /\ UNCHANGED <<history, callers>>

SpecS == Init /\ [][NextS]_vars
(***************************************************************************)
(* Vocabulary of the properties.                                           *)
(***************************************************************************)
\* The effective payment hash of an invoice: the supplied hash when the
\* preimage is external, the SHA-256 of the preimage otherwise.
EffectiveHash(i) ==
    IF i.ExternalPreimage THEN i.PaymentHash ELSE SHA256(i.PaymentPreimage)

\* The invoice has the value its effective hash is taken from.
HasPreimageOrHash(i) ==
    IF i.ExternalPreimage THEN i.PaymentHash # zeroHash
    ELSE i.PaymentPreimage # zeroPreimage

WithinCeilings(i) ==
    /\ i.Memo <= MaxMemoSize
    /\ i.Receipt <= MaxReceiptSize
    /\ i.PaymentRequest <= MaxPaymentRequestSize

\* A record is stored for the hash, and that record.
HasRecord(h) ==
    h \in DOMAIN invoiceIndex /\ invoiceIndex[h] \in DOMAIN invoices
Record(h) == invoices[invoiceIndex[h]]

\* Some stored invoice has the effective hash h.
StoredWithHash(h) == \E k \in DOMAIN invoices : EffectiveHash(invoices[k]) = h

(***************************************************************************)
(* C1                                                                      *)
(***************************************************************************)
\* C1 as stated: an AddInvoice of an invoice whose effective payment hash is
\* that of a stored invoice returns ErrDuplicateInvoice whatever its other
\* fields are, and no two stored invoices share an effective hash.
C1_AsStated ==
    [][ /\ ( /\ last'.op = "AddInvoice"
             /\ StoredWithHash(EffectiveHash(last'.inv)) )
           => last'.err = ErrDuplicateInvoice
        /\ \A j, k \in DOMAIN invoices' :
             j # k => EffectiveHash(invoices'[j]) # EffectiveHash(invoices'[k])
      ]_vars

\* C1 amended: an AddInvoice of an invoice whose effective payment hash is
\* that of a stored invoice fails and changes nothing; it fails with
\* ErrDuplicateInvoice when the invoice is within the size ceilings and has
\* the preimage or hash its effective hash is taken from (otherwise the
\* size or missing-preimage error comes first); no two stored invoices
\* ever share an effective hash.
C1_DuplicateRejected ==
    [][ /\ ( /\ last'.op = "AddInvoice"
             /\ StoredWithHash(EffectiveHash(last'.inv)) )
           => /\ last'.err # Nil
              /\ UNCHANGED dbvars
              /\ ( WithinCeilings(last'.inv) /\ HasPreimageOrHash(last'.inv) )
                   => last'.err = ErrDuplicateInvoice
        /\ \A j, k \in DOMAIN invoices' :
             j # k => EffectiveHash(invoices'[j]) # EffectiveHash(invoices'[k])
      ]_vars

\* An external-preimage invoice was rejected as a duplicate of a stored
\* local-preimage invoice.
C1_Witness ==
    /\ last.op = "AddInvoice"
    /\ last.err = ErrDuplicateInvoice
    /\ last.inv.ExternalPreimage
    /\ \E k \in DOMAIN invoices :
         /\ ~invoices[k].ExternalPreimage
         /\ SHA256(invoices[k].PaymentPreimage) = last.inv.PaymentHash
         /\ invoices[k].Settled # last.inv.Settled

(***************************************************************************)
(* C2                                                                      *)
(***************************************************************************)
\* C2: the k-th AddInvoice that returns no error returns addIndex = k, and
\* the add sequence has advanced exactly once per such call.
C2_AsStated ==
    /\ (last.op = "AddInvoice" /\ last.err = Nil) => last.idx = nAddOK
    /\ (last.op = "AddInvoice" /\ last.err # Nil) => last.idx = 0
    /\ addSeq = nAddOK

(***************************************************************************)
(* C3                                                                      *)
(***************************************************************************)
\* C3: the k-th SettleInvoice that settles an unsettled invoice assigns
\* settleIndex = k, and the settle sequence advances on those calls only:
\* it always equals their number, whatever else was called.
C3_SettleIndexGapless ==
    /\ settleSeq = nSettled
    /\ (last.op = "SettleInvoice" /\ last.step = "settled")
         => /\ last.ret.Settled
            /\ last.ret.SettleIndex = nSettled
            /\ HasRecord(last.hash)
            /\ Record(last.hash).SettleIndex = nSettled

\* The second settlement, of the invoice that was added first, after two
\* adds: settle index 2 went to add index 1.
C3_Witness ==
    /\ last.op = "SettleInvoice"
    /\ last.step = "settled"
    /\ nSettled = 2
    /\ last.ret.SettleIndex = 2
    /\ last.ret.AddIndex = 1

C5_AsStated ==
    [][ (last'.op = "AddInvoice" /\ last'.step # "none")
        => (last'.err # Nil /\ UNCHANGED dbvars) ]_vars

(***************************************************************************)
(* C6                                                                      *)
(***************************************************************************)
\* C6: on an external-preimage invoice whose stored preimage is all-zero,
\* AddInvoicePreimage succeeds and LookupInvoice then returns the supplied
\* preimage; on one whose stored preimage is non-zero, AddInvoicePreimage
\* with another preimage fails and changes nothing; and no call of any
\* method changes a stored non-zero preimage.
C6_PreimageWriteOnce ==
    [][ /\ ( /\ last'.op = "AddInvoicePreimage"
             /\ HasRecord(last'.hash)
             /\ Record(last'.hash).ExternalPreimage )
           => IF Record(last'.hash).PaymentPreimage = zeroPreimage
              THEN /\ last'.err = Nil
                   /\ LookupInvoiceTx(DB', last'.hash).err = Nil
                   /\ LookupInvoiceTx(DB', last'.hash).invoice.PaymentPreimage
                        = last'.preimage
              ELSE last'.preimage # Record(last'.hash).PaymentPreimage
                     => (last'.err # Nil /\ UNCHANGED dbvars)
        /\ \A k \in DOMAIN invoices :
             invoices[k].PaymentPreimage # zeroPreimage
               => /\ k \in DOMAIN invoices'
                  /\ invoices'[k].PaymentPreimage = invoices[k].PaymentPreimage
      ]_vars

\* Another non-zero preimage was refused for an external-preimage invoice
\* whose preimage is known.
C6_Witness ==
    /\ last.op = "AddInvoicePreimage"
    /\ last.err = ErrOverwritePreimage
    /\ HasRecord(last.hash)
    /\ Record(last.hash).ExternalPreimage
    /\ last.preimage # zeroPreimage
    /\ Record(last.hash).PaymentPreimage # zeroPreimage
    /\ Record(last.hash).PaymentPreimage # last.preimage

(***************************************************************************)
(* C7                                                                      *)
(***************************************************************************)
\* C7 as stated: once an AddInvoicePreimage on a hash has returned success,
\* every further AddInvoicePreimage on that hash fails, whatever the
\* preimages are.
C7_AsStated ==
    [][ ( /\ last'.op = "AddInvoicePreimage"
          /\ \E p \in RevealPreimages : <<last'.hash, p>> \in reveals )
        => last'.err # Nil ]_vars

\* C7 amended: once an AddInvoicePreimage with a non-zero preimage has
\* returned success on a hash, every further AddInvoicePreimage on that
\* hash fails and changes nothing, so at most one non-zero preimage is ever
\* accepted for a hash; a call with the all-zero preimage on an invoice
\* whose stored preimage is all-zero returns success and changes nothing.
C7_OneReveal ==
    [][ /\ ( /\ last'.op = "AddInvoicePreimage"
             /\ \E p \in RevealPreimages \ {zeroPreimage} :
                  <<last'.hash, p>> \in reveals )
           => (last'.err # Nil /\ UNCHANGED dbvars)
        /\ ( /\ last'.op = "AddInvoicePreimage"
             /\ last'.preimage = zeroPreimage
             /\ HasRecord(last'.hash)
             /\ Record(last'.hash).ExternalPreimage
             /\ Record(last'.hash).PaymentPreimage = zeroPreimage )
           => (last'.err = Nil /\ UNCHANGED dbvars)
        /\ \A h \in Hashes :
             Cardinality({p \in RevealPreimages \ {zeroPreimage} :
                            <<h, p>> \in reveals'}) <= 1
      ]_vars

\* After a successful reveal of a non-zero preimage, one with another
\* non-zero preimage was refused.
C7_Witness ==
    /\ last.op = "AddInvoicePreimage"
    /\ last.err = ErrOverwritePreimage
    /\ last.preimage # zeroPreimage
    /\ \E p \in RevealPreimages \ {zeroPreimage, last.preimage} :
         <<last.hash, p>> \in reveals

(***************************************************************************)
(* C8                                                                      *)
(***************************************************************************)
\* C8: AddInvoicePreimage on the hash of a stored invoice whose
\* ExternalPreimage flag is false fails, with the not-external error, and
\* leaves the record, the indexes and the counters unchanged.
C8_LocalPreimageImmutable ==
    [][ ( /\ last'.op = "AddInvoicePreimage"
          /\ HasRecord(last'.hash)
          /\ ~Record(last'.hash).ExternalPreimage )
        => (last'.err = ErrNotExternal /\ UNCHANGED dbvars) ]_vars

\* The call was refused for a settled local-preimage invoice.
C8_Witness ==
    /\ last.op = "AddInvoicePreimage"
    /\ last.err = ErrNotExternal
    /\ HasRecord(last.hash)
    /\ ~Record(last.hash).ExternalPreimage
    /\ Record(last.hash).Settled
    /\ Record(last.hash).SettleIndex > 0

(***************************************************************************)
(* C9                                                                      *)
(***************************************************************************)
\* C9: InvoicesSettledSince(k), k > 0, while the settle index bucket does
\* not exist returns an empty sequence and no error.
C9_AsStated ==
    ( /\ last.op = "InvoicesSettledSince"
      /\ last.since > 0
      /\ settleIndexBucket \notin buckets )
    => (last.err = Nil /\ last.seq = << >>)

(***************************************************************************)
(* C10                                                                     *)
(***************************************************************************)
\* C10: FetchAllInvoices while no invoices bucket exists returns an empty
\* sequence and no error, for both values of pendingOnly.
C10_AsStated ==
    (last.op = "FetchAllInvoices" /\ invoiceBucket \notin buckets)
    => (last.err = Nil /\ last.seq = << >>)

(***************************************************************************)
(* C11                                                                     *)
(***************************************************************************)
\* C11 as stated: in every state, the never-used ledger included,
\* LookupInvoice of a payment hash that no stored invoice has returns
\* ErrInvoiceNotFound, never ErrNoInvoicesCreated.
C11_AsStated ==
    (last.op = "LookupInvoice" /\ ~StoredWithHash(last.hash))
        => last.err = ErrInvoiceNotFound

(***************************************************************************)
(* Vocabulary of the scans: the stored invoices in sequence order.         *)
(***************************************************************************)
\* The invoice stored under invoice number n.
StoredInvoice(n) == deserializeInvoice(invoices[n]).invoice

\* The invoice numbers of K in ascending order of the add index of their
\* invoices.
RECURSIVE AscendingAddIndex(_)
AscendingAddIndex(K) ==
    IF K = {} THEN << >>
    ELSE LET m == CHOOSE n \in K :
                      \A o \in K : StoredInvoice(n).AddIndex
                                       <= StoredInvoice(o).AddIndex
         IN  <<m>> \o AscendingAddIndex(K \ {m})

\* The same for the settle index.
RECURSIVE AscendingSettleIndex(_)
AscendingSettleIndex(K) ==
    IF K = {} THEN << >>
    ELSE LET m == CHOOSE n \in K :
                      \A o \in K : StoredInvoice(n).SettleIndex
                                       <= StoredInvoice(o).SettleIndex
         IN  <<m>> \o AscendingSettleIndex(K \ {m})

\* The stored invoices of a sequence of invoice numbers.
InvoicesOf(ns) == [x \in 1..Len(ns) |-> StoredInvoice(ns[x])]

\* The stored invoices with an add index above k, in ascending order of it.
AddedAfter(k) ==
    InvoicesOf(AscendingAddIndex(
        {n \in DOMAIN invoices : StoredInvoice(n).AddIndex > k}))

\* The stored invoices with a settle index above k, in ascending order of it.
SettledAfter(k) ==
    InvoicesOf(AscendingSettleIndex(
        {n \in DOMAIN invoices : StoredInvoice(n).SettleIndex > k}))

(***************************************************************************)
(* C12                                                                     *)
(***************************************************************************)
\* C12 as stated: in every state and for every k > 0, also above the highest
\* add index, InvoicesAddedSince(k) returns without error exactly the stored
\* invoices with addIndex > k, each once, in ascending addIndex order and as
\* they are stored now.
C12_AsStated ==
    (last.op = "InvoicesAddedSince" /\ last.since > 0)
        => (last.err = Nil /\ last.seq = AddedAfter(last.since))

(***************************************************************************)
(* C13                                                                     *)
(***************************************************************************)
\* C13: in every state in which SettleInvoice has settled at least one
\* invoice and for every k > 0, InvoicesSettledSince(k) returns without error
\* exactly the stored invoices with settleIndex > k, each once, in ascending
\* settleIndex order, which is the order of settlement and not of creation.
C13_SettledSinceInOrder ==
    (last.op = "InvoicesSettledSince" /\ last.since > 0 /\ nSettled > 0)
        => (last.err = Nil /\ last.seq = SettledAfter(last.since))

\* InvoicesSettledSince(k), k > 0, returned two invoices the later created of
\* which was settled first.
C13_Witness ==
    /\ last.op = "InvoicesSettledSince"
    /\ last.since > 0
    /\ last.err = Nil
    /\ Len(last.seq) = 2
    /\ last.seq[1].SettleIndex < last.seq[2].SettleIndex
    /\ last.seq[1].AddIndex > last.seq[2].AddIndex

(***************************************************************************)
(* C14                                                                     *)
(***************************************************************************)
\* C14: InvoicesAddedSince(0) and InvoicesSettledSince(0) return an empty
\* sequence and no error in every state, also when invoices with an add
\* index or a settle index of 1 and more are stored.
C14_ZeroReturnsNothing ==
    (last.op \in {"InvoicesAddedSince", "InvoicesSettledSince"} /\ last.since = 0)
        => (last.err = Nil /\ last.seq = << >>)

\* InvoicesAddedSince(0) was called on a ledger with two added invoices, one
\* of them settled.
C14_Witness ==
    /\ last.op = "InvoicesAddedSince"
    /\ last.since = 0
    /\ Len(AddedAfter(0)) >= 2
    /\ Len(SettledAfter(0)) >= 1

(***************************************************************************)
(* Vocabulary of the paginated query.                                      *)
(***************************************************************************)
\* The invoice numbers of the stored invoices that pass the filter of q.
Passing(q) ==
    {n \in DOMAIN invoices : ~(q.PendingOnly /\ StoredInvoice(n).Settled)}

\* The first and the last n elements of a sequence, or all of it.
Take(s, n) == SubSeq(s, 1, IF n < Len(s) THEN n ELSE Len(s))
TakeLast(s, n) == SubSeq(s, IF n < Len(s) THEN Len(s) - n + 1 ELSE 1, Len(s))

\* The stored invoices passing the filter with an add index above, and
\* below, the offset of q, in ascending order of the add index.
PassingAbove(q) ==
    InvoicesOf(AscendingAddIndex(
        {n \in Passing(q) : Uint64Less(q.IndexOffset, StoredInvoice(n).AddIndex)}))

PassingBelow(q) ==
    InvoicesOf(AscendingAddIndex(
        {n \in Passing(q) : Uint64Less(StoredInvoice(n).AddIndex, q.IndexOffset)}))

\* Every entry of the add index leads to a record.
AddIndexComplete == \A k \in DOMAIN addIndex : addIndex[k] \in DOMAIN invoices

(***************************************************************************)
(* C15                                                                     *)
(***************************************************************************)
\* C15 as stated: QueryInvoices with reversed = false returns, in ascending
\* add-index order, the invoices with the smallest add indexes strictly above
\* the offset that pass the pendingOnly filter, up to maxResults of them; the
\* settled invoices skipped do not count toward maxResults.
C15_AsStated ==
    (last.op = "QueryInvoices" /\ ~last.q.Reversed)
        => /\ last.err = Nil
           /\ last.seq = Take(PassingAbove(last.q), last.q.NumMaxInvoices)

(***************************************************************************)
(* C16                                                                     *)
(***************************************************************************)
\* C16 as stated: QueryInvoices with reversed = true and an offset of 1 or
\* more returns, in ascending add-index order, the invoices with the largest
\* add indexes strictly below the offset that pass the pendingOnly filter, up
\* to maxResults of them (none for offset 1), whatever the relation of the
\* offset to the highest add index.
C16_AsStated ==
    (last.op = "QueryInvoices" /\ last.q.Reversed /\ last.q.IndexOffset # 0)
        => /\ last.err = Nil
           /\ last.seq = TakeLast(PassingBelow(last.q), last.q.NumMaxInvoices)

(***************************************************************************)
(* C17                                                                     *)
(***************************************************************************)
\* C17 as stated: QueryInvoices with reversed = true and offset 0 returns, in
\* ascending add-index order, the invoices with the highest add indexes that
\* pass the pendingOnly filter, up to maxResults of them; with N stored
\* invoices, no filter and maxResults = N it returns what the forward query
\* with offset 0 returns.
C17_AsStated ==
    (last.op = "QueryInvoices" /\ last.q.Reversed /\ last.q.IndexOffset = 0)
        => /\ last.err = Nil
           /\ last.seq = TakeLast(PassingAbove(last.q), last.q.NumMaxInvoices)
           /\ ( ~last.q.PendingOnly
                /\ last.q.NumMaxInvoices = Cardinality(DOMAIN invoices) )
              => last.seq =
                     QueryInvoicesTx(DB, [last.q EXCEPT !.Reversed = FALSE]).invoices

(***************************************************************************)
(* C18                                                                     *)
(***************************************************************************)
\* C18 as stated: for every QueryInvoices call firstIndexOffset is the
\* addIndex of the first returned invoice and lastIndexOffset that of the
\* last one, both are 0 when the result is empty, firstIndexOffset <=
\* lastIndexOffset, and on the never-used ledger the result is empty with no
\* error.
C18_AsStated ==
    last.op = "QueryInvoices"
        => /\ IF last.seq = << >>
              THEN last.FirstIndexOffset = 0 /\ last.LastIndexOffset = 0
              ELSE /\ last.FirstIndexOffset = last.seq[1].AddIndex
                   /\ last.LastIndexOffset = last.seq[Len(last.seq)].AddIndex
           /\ last.FirstIndexOffset <= last.LastIndexOffset
           /\ invoiceBucket \notin buckets
                  => (last.err = Nil /\ last.seq = << >>)

(***************************************************************************)
(* C19                                                                     *)
(***************************************************************************)
\* C19: the sequence FetchAllInvoices returns holds every stored invoice
\* exactly once in ascending primary-key order, which is ascending addIndex
\* order, and with pendingOnly set exactly the invoices whose settled flag is
\* false, in that order; the call fails only while the invoice bucket does
\* not exist.  Primary keys follow the order of the AddInvoice calls: a new
\* record gets a key and an add index above those of all stored records.
C19_FetchAllInCreationOrder ==
    [][ /\ last'.op = "FetchAllInvoices"
            => /\ invoiceBucket \in buckets' => last'.err = Nil
               /\ LET ns == {n \in DOMAIN invoices' :
                               ~(last'.pendingOnly /\ invoices'[n].Settled)}
                  IN  /\ last'.seq = [x \in 1..Cardinality(ns) |->
                             deserializeInvoice(invoices'[SortedKeys(ns)[x]]).invoice]
                      /\ \A x, y \in 1..Len(last'.seq) :
                             x < y => last'.seq[x].AddIndex < last'.seq[y].AddIndex
        /\ \A n \in DOMAIN invoices' \ DOMAIN invoices :
             \A o \in DOMAIN invoices :
                 o < n /\ invoices[o].AddIndex < invoices'[n].AddIndex
      ]_vars

\* FetchAllInvoices(true) returned the second of two stored invoices, the
\* first one being settled.
C19_Witness ==
    /\ last.op = "FetchAllInvoices"
    /\ last.pendingOnly
    /\ last.err = Nil
    /\ DOMAIN invoices = {0, 1}
    /\ invoices[0].Settled
    /\ Len(last.seq) = 1
    /\ last.seq[1].AddIndex = invoices[1].AddIndex

WithoutMonotonic(t) == IF t = MonotonicTime THEN WallTime ELSE t

\* The invoice i with the hash of a local preimage dropped and the times
\* without a monotonic clock reading.
AsStored(i) ==
    [i EXCEPT !.PaymentHash = IF i.ExternalPreimage THEN @ ELSE zeroHash,
              !.CreationDate = WithoutMonotonic(@),
              !.SettleDate = WithoutMonotonic(@)]

CodecInvoices ==
    { [ZeroInvoice EXCEPT
          !.Memo = f.Memo, !.Receipt = 7, !.Value = 10,
          !.CreationDate = f.CreationDate, !.SettleDate = f.SettleDate,
          !.ExternalPreimage = f.ExternalPreimage,
          !.PaymentHash = f.PaymentHash,
          !.PaymentPreimage = f.PaymentPreimage,
          !.Settled = f.Settled, !.AddIndex = f.AddIndex,
          !.SettleIndex = f.SettleIndex, !.AmtPaid = f.AmtPaid] :
      f \in [Memo : {0, MaxMemoSize, MaxMemoSize + 1},
             CreationDate : {ZeroTime, WallTime, MonotonicTime, BadZoneTime},
             SettleDate : {ZeroTime} \cup SettleTimes,
             ExternalPreimage : BOOLEAN, PaymentHash : Hashes,
             PaymentPreimage : Preimages, Settled : BOOLEAN,
             AddIndex : {0, 1}, SettleIndex : {0, 1}, AmtPaid : {0, 5}] }

InitCodec ==
    /\ buckets = EmptyDB.buckets
    /\ invoices = EmptyDB.invoices
    /\ invoiceIndex = EmptyDB.invoiceIndex
    /\ numInvoices = EmptyDB.numInvoices
    /\ addIndex = EmptyDB.addIndex
    /\ addSeq = EmptyDB.addSeq
    /\ settleIndex = EmptyDB.settleIndex
    /\ settleSeq = EmptyDB.settleSeq
    /\ \E i \in CodecInvoices : last = [NoCall EXCEPT !.op = "Invoice", !.inv = i]
    /\ nAddOK = 0
    /\ nSettled = 0
    /\ firstSettle = << >>
    /\ reveals = {}
    /\ calls = [c \in Callers |-> IdleCall]
    /\ rwlock = NoLock
    /\ chain = NoChain

\* serializeInvoice(w, i): last.ret is what was written to w.
SerializeInvoice ==
    /\ last.op = "Invoice"
    /\ LET s == serializeInvoice(last.inv)
       IN  last' = [last EXCEPT !.op = "serializeInvoice",
                                !.ret = s.bytes, !.err = s.err]
    /\ UNCHANGED <<dbvars, nAddOK, nSettled, history, callers>>

\* deserializeInvoice(r) of the bytes written.
DeserializeInvoice ==
    /\ last.op = "serializeInvoice"
    /\ last.err = Nil
    /\ LET r == deserializeInvoice(last.ret)
       IN  last' = [last EXCEPT !.op = "deserializeInvoice",
                                !.ret = r.invoice, !.err = r.err]
    /\ UNCHANGED <<dbvars, nAddOK, nSettled, history, callers>>

NextCodec ==
    \/ SerializeInvoice
    \/ DeserializeInvoice

SpecCodec == InitCodec /\ [][NextCodec]_vars

EncodableTimes(i) ==
    i.CreationDate # BadZoneTime /\ i.SettleDate # BadZoneTime

C22_SettledMonotonic ==
    [][ \A n \in DOMAIN invoices :
          invoices[n].Settled
              => /\ n \in DOMAIN invoices'
                 /\ invoices'[n].Settled
                 /\ invoices'[n].SettleIndex = invoices[n].SettleIndex
                 /\ invoices'[n].AmtPaid = invoices[n].AmtPaid
                 /\ invoices'[n].SettleDate = invoices[n].SettleDate
      ]_vars

\* An invoice settled for one amount was settled again for another, and
\* the call returned nil.
C22_Witness ==
    /\ last.op = "SettleInvoice"
    /\ last.err = Nil
    /\ nSettled = 1
    /\ HasRecord(last.hash)
    /\ Record(last.hash).Settled
    /\ Record(last.hash).SettleIndex = 1
    /\ Record(last.hash).AmtPaid # last.amt

(***************************************************************************)
(* C23                                                                     *)
(***************************************************************************)
\* The fields of a record that are fixed when the invoice is added.
CreationFields(b) ==
    <<b.Memo, b.Receipt, b.PaymentRequest, b.CreationDate, b.Value,
      b.ExternalPreimage, b.PaymentHash, b.AddIndex>>

\* The fields of a record that settling writes.
SettleFields(b) == <<b.Settled, b.AmtPaid, b.SettleDate, b.SettleIndex>>

\* The methods that only read.
ReadMethods ==
    {"LookupInvoice", "FetchAllInvoices", "InvoicesAddedSince",
     "InvoicesSettledSince", "QueryInvoices"}

\* C23: no call deletes a stored invoice or changes its memo, receipt,
\* payment request, creation date, value, external-preimage flag, payment
\* hash or add index.  SettleInvoice changes nothing in a record but the
\* settled flag, amount paid, settle date and settle index and adds no
\* record; AddInvoicePreimage changes nothing in a record but the payment
\* preimage and adds no record; the read methods change nothing in the
\* database.
C23_FieldsFrame ==
    [][ /\ \A n \in DOMAIN invoices :
             /\ n \in DOMAIN invoices'
             /\ CreationFields(invoices'[n]) = CreationFields(invoices[n])
        /\ last'.op = "SettleInvoice"
             => /\ DOMAIN invoices' = DOMAIN invoices
                /\ \A n \in DOMAIN invoices :
                     invoices'[n].PaymentPreimage = invoices[n].PaymentPreimage
        /\ last'.op = "AddInvoicePreimage"
             => /\ DOMAIN invoices' = DOMAIN invoices
                /\ \A n \in DOMAIN invoices :
                     SettleFields(invoices'[n]) = SettleFields(invoices[n])
        /\ last'.op \in ReadMethods => UNCHANGED dbvars
      ]_vars

\* Two invoices are stored; the first is settled and its preimage has just
\* been revealed.
C23_Witness ==
    /\ last.op = "AddInvoicePreimage"
    /\ last.err = Nil
    /\ DOMAIN invoices = {0, 1}
    /\ HasRecord(last.hash)
    /\ invoiceIndex[last.hash] = 0
    /\ Record(last.hash).Settled
    /\ Record(last.hash).SettleIndex = 1
    /\ Record(last.hash).PaymentPreimage = last.preimage
    /\ last.preimage # zeroPreimage

(***************************************************************************)
(* AddInvoice called concurrently.  validateInvoice runs before the        *)
(* transaction; DB.Update takes bolt's writer lock, runs the body on the   *)
(* database as it is then and commits or rolls back before it releases     *)
(* the lock.                                                               *)
(***************************************************************************)
\* The invoices the callers submit: a local-preimage and two
\* external-preimage invoices with the same effective hash, one of them
\* with a creation date that cannot be encoded; an invoice with another
\* hash; and one with an oversized memo.
ConcurrentInvoices ==
    { InvoiceOf(4, WallTime, FALSE, zeroHash, NumPreimages, FALSE),
      InvoiceOf(4, WallTime, TRUE, SHA256(NumPreimages), zeroPreimage, FALSE),
      InvoiceOf(4, BadZoneTime, TRUE, SHA256(NumPreimages), zeroPreimage, FALSE),
      InvoiceOf(4, WallTime, TRUE, 1, zeroPreimage, FALSE),
      InvoiceOf(MaxMemoSize + 1, WallTime, TRUE, SHA256(NumPreimages),
                zeroPreimage, FALSE) }

\* A writer that ignores the lock.
RWLockIgnored(c) == TRUE

\* db.rwlock.Lock() in bolt's beginRWTx: only one writer at a time.
RWLockFree(c) == rwlock = NoLock

\* A goroutine calls AddInvoice(i).
CallAddInvoice(c, i) ==
    /\ calls[c].pc = "idle"
    /\ calls' = [calls EXCEPT ![c] = [IdleCall EXCEPT !.pc = "validateInvoice",
                                                      !.inv = i]]
    /\ UNCHANGED <<dbvars, last, nAddOK, nSettled, history, rwlock, chain>>

\* validateInvoice(newInvoice), before the transaction.
ValidateInvoice(c) ==
    /\ calls[c].pc = "validateInvoice"
    /\ LET v == validateInvoice(calls[c].inv)
       IN  calls' = [calls EXCEPT ![c].pc = IF v # Nil THEN "done" ELSE "Update",
                                  ![c].err = v]
    /\ UNCHANGED <<dbvars, last, nAddOK, nSettled, history, rwlock, chain>>

\* d.Update begins the read-write transaction: it takes the writer lock and
\* sees the database as it is.
BeginUpdate(c) ==
    /\ calls[c].pc = "Update"
    /\ RWLockFree(c)
    /\ rwlock' = c
    /\ calls' = [calls EXCEPT ![c].pc = "tx", ![c].tx = DB]
    /\ UNCHANGED <<dbvars, last, nAddOK, nSettled, history, chain>>

\* The body of the transaction runs and d.Update commits it or rolls it
\* back, and releases the writer lock.
CommitUpdate(c) ==
    /\ calls[c].pc = "tx"
    /\ LET r == AddInvoiceTx(calls[c].tx, calls[c].inv)
       IN  /\ Store(Update(calls[c].tx, r))
           /\ calls' = [calls EXCEPT
                           ![c].pc = "done", ![c].err = r.err,
                           ![c].idx = IF r.err = Nil THEN r.idx ELSE 0]
           /\ last' = [NoCall EXCEPT !.op = "AddInvoice",
                                     !.inv = calls[c].inv, !.err = r.err,
                                     !.idx = IF r.err = Nil THEN r.idx ELSE 0,
                                     !.ret = r.inv, !.step = r.step]
           /\ nAddOK' = IF r.err = Nil THEN nAddOK + 1 ELSE nAddOK
    /\ rwlock' = NoLock
    /\ UNCHANGED <<nSettled, history, chain>>

NextConcurrent ==
    \/ \E c \in Callers, i \in ConcurrentInvoices : CallAddInvoice(c, i)
    \/ \E c \in Callers : ValidateInvoice(c)
    \/ \E c \in Callers : BeginUpdate(c)
    \/ \E c \in Callers : CommitUpdate(c)

SpecConcurrent == Init /\ [][NextConcurrent]_vars

(***************************************************************************)
(* C24                                                                     *)
(***************************************************************************)
\* The callers whose invoice passes validation and has the effective
\* payment hash h.
CallersOf(h) ==
    { c \in Callers :
        /\ calls[c].pc # "idle"
        /\ WithinCeilings(calls[c].inv)
        /\ HasPreimageOrHash(calls[c].inv)
        /\ EffectiveHash(calls[c].inv) = h }

\* The calls among them that returned nil.
Succeeded(h) == { c \in CallersOf(h) : calls[c].pc = "done" /\ calls[c].err = Nil }

\* C24: of the concurrent AddInvoice calls for invoices of one effective
\* payment hash, in every interleaving at most one has returned nil; once
\* all have returned, exactly one has returned nil and every other one
\* ErrDuplicateInvoice; and the hash has one entry in the hash index, whose
\* primary key no other hash has and which has one entry in the add index,
\* both counters standing at the number of hashes added.
C24_OneConcurrentAddWins ==
    \A h \in Hashes \ {zeroHash} :
        /\ Cardinality(Succeeded(h)) <= 1
        /\ (CallersOf(h) # {} /\ \A c \in CallersOf(h) : calls[c].pc = "done")
              => /\ Cardinality(Succeeded(h)) = 1
                 /\ \A c \in CallersOf(h) \ Succeeded(h) :
                      calls[c].err = ErrDuplicateInvoice
        /\ Succeeded(h) # {}
              => /\ h \in DOMAIN invoiceIndex
                 /\ \A g \in DOMAIN invoiceIndex :
                      invoiceIndex[g] = invoiceIndex[h] => g = h
                 /\ Cardinality({ a \in DOMAIN addIndex :
                                    addIndex[a] = invoiceIndex[h] }) = 1
                 /\ addSeq = Cardinality(DOMAIN invoiceIndex)
                 /\ numInvoices = <<Cardinality(DOMAIN invoiceIndex)>>

\* Two callers submitted a local-preimage and an external-preimage invoice
\* of one effective hash and both have returned, the second nil and the
\* first ErrDuplicateInvoice.
C24_Witness ==
    \E c1, c2 \in Callers :
        /\ c1 # c2
        /\ calls[c1].pc = "done"
        /\ calls[c2].pc = "done"
        /\ calls[c1].inv # calls[c2].inv
        /\ ~calls[c1].inv.ExternalPreimage
        /\ calls[c2].inv.ExternalPreimage
        /\ EffectiveHash(calls[c1].inv) = EffectiveHash(calls[c2].inv)
        /\ calls[c1].err = ErrDuplicateInvoice
        /\ calls[c2].err = Nil

(***************************************************************************)
(* C25                                                                     *)
(***************************************************************************)
\* C25: a SettleInvoice or AddInvoicePreimage of a payment hash that has no
\* entry in the hash index returns ErrInvoiceNotFound, on the never-used
\* ledger too, and leaves the database as it was: no bucket created, no
\* index entry or record written, no sequence number taken.
C25_UnknownHashNotFound ==
    [][ ( /\ last'.op \in {"SettleInvoice", "AddInvoicePreimage"}
          /\ last'.hash \notin DOMAIN invoiceIndex )
            => (last'.err = ErrInvoiceNotFound /\ UNCHANGED dbvars)
      ]_vars

\* SettleInvoice was called on the never-used ledger and returned
\* ErrInvoiceNotFound.
C25_Witness ==
    /\ last.op = "SettleInvoice"
    /\ last.err = ErrInvoiceNotFound
    /\ buckets = {}
    /\ numInvoices = << >>
    /\ settleSeq = 0

(***************************************************************************)
(* C26                                                                     *)
(***************************************************************************)
\* C26: AddInvoice returns the error of a missing preimage or payment hash
\* exactly when the invoice is within the size ceilings and either has a
\* local preimage that is all-zero or an external preimage and an all-zero
\* payment hash; an invoice over a size ceiling gets the size error
\* whatever its hash and preimage are; an external-preimage invoice with a
\* non-zero hash and an all-zero preimage is not rejected for its preimage
\* or hash; and an AddInvoice that returns an error leaves the database as
\* it was.
C26_MissingPreimageOrHash ==
    [][ last'.op = "AddInvoice" =>
          /\ (last'.err \in {ErrNoPreimage, ErrNoPaymentHash})
                <=> (WithinCeilings(last'.inv) /\ ~HasPreimageOrHash(last'.inv))
          /\ last'.err = ErrNoPreimage => ~last'.inv.ExternalPreimage
          /\ last'.err = ErrNoPaymentHash => last'.inv.ExternalPreimage
          /\ ~WithinCeilings(last'.inv)
                => last'.err \in {ErrMemoSize, ErrReceiptSize,
                                  ErrPaymentRequestSize}
          /\ ( /\ last'.inv.ExternalPreimage
               /\ last'.inv.PaymentHash # zeroHash
               /\ last'.inv.PaymentPreimage = zeroPreimage
               /\ WithinCeilings(last'.inv)
               /\ last'.inv.PaymentHash \notin DOMAIN invoiceIndex )
                => (last'.err = Nil /\ last'.inv.PaymentHash \in DOMAIN invoiceIndex')
          /\ last'.err # Nil => UNCHANGED dbvars
      ]_vars

\* An invoice with an oversized memo and neither preimage nor hash was
\* rejected for its size, on a ledger that holds an invoice.
C26_Witness ==
    /\ last.op = "AddInvoice"
    /\ last.err = ErrMemoSize
    /\ ~HasPreimageOrHash(last.inv)
    /\ invoices # << >>

(***************************************************************************)
(* C27                                                                     *)
(***************************************************************************)
\* C27: AddInvoicePreimage, whether it returns nil or an error, leaves the
\* hash index, the add index, the settle index, the invoice counter and
\* both sequences as they were; and after one that returned nil the invoice
\* is looked up under the hash it was called with, with its add index as
\* before, and no other hash leads to it, also when that hash is not the
\* SHA-256 of the revealed preimage.
C27_RevealKeepsIndexes ==
    [][ last'.op = "AddInvoicePreimage" =>
          /\ UNCHANGED <<invoiceIndex, addIndex, settleIndex, numInvoices,
                         addSeq, settleSeq>>
          /\ last'.err = Nil =>
               /\ LookupInvoiceTx(DB', last'.hash).err = Nil
               /\ LookupInvoiceTx(DB', last'.hash).invoice.AddIndex
                      = LookupInvoiceTx(DB, last'.hash).invoice.AddIndex
               /\ LookupInvoiceTx(DB', last'.hash).invoice.PaymentHash
                      = last'.hash
               /\ \A g \in DOMAIN invoiceIndex' :
                      invoiceIndex'[g] = invoiceIndex'[last'.hash]
                          => g = last'.hash
      ]_vars

\* A preimage was revealed for an invoice whose hash is not its SHA-256,
\* while another invoice is stored under the SHA-256 of that preimage.
C27_Witness ==
    /\ last.op = "AddInvoicePreimage"
    /\ last.err = Nil
    /\ last.preimage # zeroPreimage
    /\ SHA256(last.preimage) # last.hash
    /\ HasRecord(last.hash)
    /\ Record(last.hash).PaymentPreimage = last.preimage
    /\ HasRecord(SHA256(last.preimage))
    /\ invoiceIndex[SHA256(last.preimage)] # invoiceIndex[last.hash]

(***************************************************************************)
(* C28                                                                     *)
(***************************************************************************)
\* C28 as stated: in every reachable state every hash-index entry and every
\* add-index entry points to an invoice number that has a record, every
\* record is pointed to by exactly one hash-index entry, that of its
\* effective payment hash, and exactly one add-index entry, that of its add
\* index, and the invoice of an AddInvoice that returned nil is looked up
\* without ErrInvoiceNotFound.
C28_AsStated ==
    /\ \A h \in DOMAIN invoiceIndex : invoiceIndex[h] \in DOMAIN invoices
    /\ \A a \in DOMAIN addIndex : addIndex[a] \in DOMAIN invoices
    /\ \A n \in DOMAIN invoices :
         /\ {h \in DOMAIN invoiceIndex : invoiceIndex[h] = n}
                = {EffectiveHash(StoredInvoice(n))}
         /\ {a \in DOMAIN addIndex : addIndex[a] = n} = {invoices[n].AddIndex}
    /\ (last.op = "AddInvoice" /\ last.err = Nil)
         => LookupInvoiceTx(DB, EffectiveHash(last.inv)).err # ErrInvoiceNotFound

(***************************************************************************)
(* C29                                                                     *)
(***************************************************************************)
\* C29: for invoices submitted unsettled, with settle index and amount paid
\* zero: the settle index has an entry s -> n exactly when the record n is
\* settled with settle index s, so that every settled invoice has exactly
\* one entry; and every unsettled record has settle index zero and amount
\* paid zero.
C29_SettleIndexConsistent ==
    /\ \A s \in DOMAIN settleIndex :
         /\ settleIndex[s] \in DOMAIN invoices
         /\ invoices[settleIndex[s]].Settled
         /\ invoices[settleIndex[s]].SettleIndex = s
    /\ \A n \in DOMAIN invoices :
         IF invoices[n].Settled
         THEN /\ invoices[n].SettleIndex \in DOMAIN settleIndex
              /\ settleIndex[invoices[n].SettleIndex] = n
              /\ Cardinality({s \in DOMAIN settleIndex : settleIndex[s] = n}) = 1
         ELSE /\ invoices[n].SettleIndex = 0
              /\ invoices[n].AmtPaid = 0

\* Two invoices are settled, in the order opposite to the one they were
\* added in, one was settled a second time, and a third is unsettled.
C29_Witness ==
    /\ last.op = "SettleInvoice"
    /\ last.err = Nil
    /\ nSettled = 2
    /\ DOMAIN settleIndex = {1, 2}
    /\ settleIndex[1] > settleIndex[2]
    /\ HasRecord(last.hash)
    /\ Record(last.hash).SettleIndex = 1
    /\ \E n \in DOMAIN invoices : ~invoices[n].Settled

(***************************************************************************)
(* C30                                                                     *)
(***************************************************************************)
\* C30 as stated: every AddInvoice that returns nil stores its record under
\* an invoice number that had no record and leaves every stored record as
\* it was; the persisted invoice counter, once written, equals the number
\* of stored records; and the record with add index a has invoice number
\* a - 1.
C30_AsStated ==
    [][ /\ (last'.op = "AddInvoice" /\ last'.err = Nil)
             => /\ \E n \in DOMAIN invoices' : n \notin DOMAIN invoices
                /\ \A m \in DOMAIN invoices :
                     m \in DOMAIN invoices' /\ invoices'[m] = invoices[m]
        /\ numInvoices' # << >>
             => numInvoices' = <<Cardinality(DOMAIN invoices')>>
        /\ \A n \in DOMAIN invoices' : invoices'[n].AddIndex = n + 1
      ]_vars

(***************************************************************************)
(* Chained pagination: a caller pages through QueryInvoices, each query    *)
(* starting at the offset the previous response gave, until a response is  *)
(* empty.  Invoices are added and settled only while no chain is under     *)
(* way.                                                                    *)
(***************************************************************************)
\* The page sizes of the chains.
ChainMaxInvoices == 1..(NumQueryInvoices + 1)

\* The caller begins a chain at offset 0.
StartChain(m, pendingOnly, reversed) ==
    /\ chain.pc # "next"
    /\ chain' = [NoChain EXCEPT
                    !.pc = "next",
                    !.q = [IndexOffset |-> 0, NumMaxInvoices |-> m,
                           PendingOnly |-> pendingOnly, Reversed |-> reversed]]
    /\ UNCHANGED <<dbvars, last, nAddOK, nSettled, history, calls, rwlock>>

\* The caller makes the next query of the chain and, unless the response is
\* empty or an error, sets the offset of the following one from
\* resp.LastIndexOffset, or resp.FirstIndexOffset when paging in reverse.
ChainQuery ==
    /\ chain.pc = "next"
    /\ QueryInvoices(chain.q)
    /\ chain' =
         IF last'.err # Nil
         THEN [chain EXCEPT !.pc = "failed", !.err = last'.err, !.n = @ + 1]
         ELSE IF last'.seq = << >>
         THEN [chain EXCEPT !.pc = "done", !.n = @ + 1]
         ELSE [chain EXCEPT
                  !.n = @ + 1,
                  !.q.IndexOffset = IF chain.q.Reversed
                                    THEN last'.FirstIndexOffset
                                    ELSE last'.LastIndexOffset,
                  !.invoices = IF chain.q.Reversed
                               THEN last'.seq \o @
                               ELSE @ \o last'.seq]
    /\ UNCHANGED <<history, calls, rwlock>>

\* A mutation, made while no chain is under way; what an earlier chain
\* returned is forgotten.
BetweenChains ==
    /\ chain.pc # "next"
    /\ chain' = NoChain
    /\ UNCHANGED <<history, calls, rwlock>>

NextChain ==
    \/ \E i \in ScanNewInvoices : AddInvoice(i) /\ BetweenChains
    \/ \E h \in ScanHashes, a \in FullAmount, t \in SettleTimes :
         SettleInvoice(h, a, t) /\ BetweenChains
    \/ \E m \in ChainMaxInvoices, p \in BOOLEAN, r \in BOOLEAN :
         StartChain(m, p, r)
    \/ ChainQuery

SpecChain == Init /\ [][NextChain]_vars

(***************************************************************************)
(* C31                                                                     *)
(***************************************************************************)
\* C31 as stated: a chain of QueryInvoices calls with a page size of at
\* least one, begun at offset 0 and continued from the last index offset
\* of each response, or the first when paging in reverse, with no mutation
\* in between, never fails and ends with an empty response, having returned
\* every stored invoice that passes the pendingOnly filter exactly once, in
\* ascending order of the add index.
C31_AsStated ==
    /\ chain.pc # "failed"
    /\ chain.n <= Cardinality(DOMAIN addIndex) + 1
    /\ chain.pc = "done"
         => chain.invoices = InvoicesOf(AscendingAddIndex(Passing(chain.q)))
====
